---- MODULE Spec2Model ----
(***************************************************************************)
(* Stage / submission state machine of the selection backend:              *)
(*   - questionnaire submission (app/api/routers/questionnaire.py) with    *)
(*     every awaited store access of submit_questionnaire as one step,     *)
(*   - the admin's stage switch (bot/handlers/admin.py),                   *)
(*   - the draft buffer (app/services/draft_service.py),                   *)
(*   - interview capacity (app/api/routers/interview_days.py and           *)
(*     interview_slots.py).                                                *)
(* The durable store holds committed rows only; what a request has flushed *)
(* but not committed lives in the request's own locals.                    *)
(***************************************************************************)
EXTENDS Integers, Sequences, FiniteSets, TLC

\* ---------------------------------------------------------------- bounds
NumApplicants == 2
NumProcs == 2
MaxSubmits == 2
NumDays == 1
NumHours == 1
NumSlots == 1
MaxCapacity == 2
NumReviewers == 2
MaxClock == 4

Applicants == 1..NumApplicants
Procs == 1..NumProcs

\* ------------------------------------------------------ program constants
\* settings.dev_telegram_id / settings.dev_faculty_id, renumbered
DevTelegramId == 1
DevFacultyId == 1
\* settings.redis_draft_ttl, in clock units
DraftTtl == 2

Faculties == {DevFacultyId}

\* StageType (None = selection not started) and StageStatus
NONE == "none"
QUESTIONNAIRE == "questionnaire"
HOME_VIDEO == "home_video"
INTERVIEW == "interview"
StageType == {QUESTIONNAIRE, HOME_VIDEO, INTERVIEW}

NOT_STARTED == "not_started"
OPEN == "open"
CLOSED == "closed"
COMPLETED == "completed"
StageStatus == {NOT_STARTED, OPEN, CLOSED, COMPLETED}

\* the targets the stage keyboard of _show_faculty_stages offers
StageButtons == {<<QUESTIONNAIRE, OPEN>>, <<QUESTIONNAIRE, CLOSED>>,
                 <<HOME_VIDEO, OPEN>>, <<HOME_VIDEO, CLOSED>>, <<INTERVIEW, OPEN>>}

\* SubmissionStatus / ApprovalStatus
SUBMITTED == "submitted"
APPROVED == "approved"
REJECTED == "rejected"
IN_PROGRESS == "in_progress"
PENDING == "pending"

\* ------------------------------------------------------------- templates
\* The active questionnaire template of a faculty: one text, one choice and
\* one number question that are required, one optional text question.
TemplateQuestions ==
    << [id |-> "q1", type |-> "text",   required |-> TRUE,  options |-> {}],
       [id |-> "q2", type |-> "choice", required |-> TRUE,  options |-> {"a", "b"}],
       [id |-> "q3", type |-> "number", required |-> TRUE,  options |-> {}],
       [id |-> "q4", type |-> "text",   required |-> FALSE, options |-> {}] >>

\* stage_templates rows: template f is the active questionnaire template of
\* faculty f; any other id names no row.
ActiveTemplate(f) == [id |-> f, faculty_id |-> f, questions |-> TemplateQuestions]
\* an id that names no stage_templates row
StaleTemplateId == DevFacultyId + 1
TemplateExists(t) == t \in Faculties

\* Answer dictionaries a client sends ({question_id: value}); "" is the
\* empty (falsy) value, a missing key is a question left out.
NoAnswers == [q \in {} |-> ""]
AnsComplete == [q1 |-> "x", q2 |-> "a", q3 |-> "7"]
AnsNoChoice == [q1 |-> "x", q3 |-> "7"]
AnsEmptyText == [q1 |-> "", q2 |-> "a", q3 |-> "7"]
AnsBadChoice == [q1 |-> "x", q2 |-> "zzz", q3 |-> "7"]
SubmitAnswers == {AnsComplete, AnsNoChoice, AnsEmptyText, AnsBadChoice}
DraftAnswers == {AnsNoChoice}

\* (template_id, answers) of the submit requests: every answer set with the
\* active template of faculty f, and one request that names a stale template
SubmitBodies(f) ==
    {<<ActiveTemplate(f).id, ans>> : ans \in SubmitAnswers}
        \cup {<<StaleTemplateId, AnsComplete>>}

\* ------------------------------------------------------------- variables
VARIABLES
    faculty,         \* faculty rows: current_stage, stage_status, video_submission_open
    users,           \* users rows by telegram_id: faculty_id, 0 = no row
    questionnaires,  \* questionnaires rows, in insertion order
    approvals,       \* approval_queue rows
    progress,        \* user_progress rows
    drafts,          \* Redis: draft:questionnaire:{telegram_id}:{faculty_id}
    pc,              \* where each request worker stands in submit_questionnaire
    req,             \* the request a worker serves
    loc,             \* the worker's session: what it read, what it flushed
    result,          \* the response of the worker's last request
    replay,          \* history: the request repeats the call that just succeeded
    sawSubmitted,    \* history: a SUBMITTED progress row existed when the request began
    issuedOpen,      \* history: the unit was (questionnaire, open) when the request read it
    fresh,           \* history: a submit has just succeeded and nothing ran since
    nSubmits,        \* submit requests begun so far
    serial,          \* TRUE: requests are served one after the other
    now,             \* the clock read by datetime.utcnow()
    days,            \* interview_days rows: TRUE = the day exists
    time_slots,      \* time_slots rows by (day_id, time)
    interview_slots, \* interview_slots rows by id
    interviews,      \* interviews rows (bookings)
    last,            \* the last scheduling request and its response
    expires,         \* Redis: the instant each draft key expires at
    faults,          \* TRUE: the draft store may be unreachable
    stageReq,        \* history: the last stage switch, its target and what it found
    slot_availability,       \* slot_availability rows by (slot_id, interviewer_id)
    time_slot_availability,  \* time_slot_availability rows by (time_slot_id, interviewer_id)
    saved,           \* per draft key: the last save_draft request not yet discarded
    faculties,       \* ids of the faculty rows that exist
    home_videos,     \* home_videos rows
    notified,        \* telegram ids the "questionnaire accepted" message reached
    shadow           \* the same requests served without a draft store

dbvars == <<faculty, users, questionnaires, approvals, progress>>
ledger == <<users, questionnaires, approvals, progress>>
procvars == <<pc, req, loc, result, replay, sawSubmitted, issuedOpen>>
vars == <<faculty, users, questionnaires, approvals, progress, drafts,
          pc, req, loc, result, replay, sawSubmitted, issuedOpen, fresh,
          nSubmits, serial, now, days, time_slots, interview_slots, interviews, last,
          expires, faults, stageReq, slot_availability, time_slot_availability,
          saved, faculties, home_videos, notified, shadow>>
draftvars == <<drafts, expires>>
modes == <<serial, faults>>
\* what the questionnaire and scheduling handlers leave alone
sidevars == <<faculties, home_videos, notified, shadow>>
availvars == <<slot_availability, time_slot_availability>>
schedvars == <<days, time_slots, interview_slots, interviews, last, availvars>>
\* what the questionnaire handlers never touch
capvars == <<schedvars, stageReq, saved>>

\* ------------------------------------------------- submit_questionnaire
\* the two stage checks at the head of submit_questionnaire
StageCheckStageOnly(stage, status) ==
    IF stage # QUESTIONNAIRE THEN "stage_not_active" ELSE "pass"

StageCheck(stage, status) ==
    IF stage # QUESTIONNAIRE THEN "stage_not_active"
    ELSE IF status # OPEN THEN "stage_closed"
    ELSE "pass"

TemplateCheck(template_id, template) == template_id = template.id

\* select(Questionnaire).where(user_id == .., faculty_id == ..).first() is not None
ExistingQuestionnaireNever(rows, user_id, faculty_id) == FALSE

ExistingQuestionnaireSwapped(rows, user_id, faculty_id) ==
    \E i \in 1..Len(rows) :
        rows[i].user_id = faculty_id /\ rows[i].faculty_id = user_id

ExistingQuestionnaire(rows, user_id, faculty_id) ==
    \E i \in 1..Len(rows) :
        rows[i].user_id = user_id /\ rows[i].faculty_id = faculty_id

\* Python truth value of an answer: "" is falsy
Falsy(v) == v = ""

RequiredQuestions(questions) ==
    {questions[i].id : i \in {j \in 1..Len(questions) : questions[j].required}}

MissingAnswersKeyOnly(questions, answers) ==
    {qid \in RequiredQuestions(questions) : qid \notin DOMAIN answers}

MissingAnswers(questions, answers) ==
    {qid \in RequiredQuestions(questions) :
        qid \notin DOMAIN answers \/ Falsy(answers[qid])}

\* the rows one submit adds to its session
NewQuestionnaire(user_id, faculty_id, template_id, answers) ==
    [user_id |-> user_id, faculty_id |-> faculty_id,
     template_id |-> template_id, answers |-> answers]

NoApprovalRows(user_id, faculty_id, answers) == << >>

NewApprovalRows(user_id, faculty_id, answers) ==
    << [user_id |-> user_id, faculty_id |-> faculty_id, stage_type |-> QUESTIONNAIRE,
        answers |-> answers, status |-> PENDING] >>

NoTime == -1

NewProgress(user_id, faculty_id, t) ==
    [user_id |-> user_id, faculty_id |-> faculty_id, stage_type |-> QUESTIONNAIRE,
     status |-> SUBMITTED, submitted_at |-> t]

\* select(UserProgress).where(user_id, faculty_id, stage_type).first(): row index, 0 = None
ProgressMatches(rows, user_id, faculty_id, stage) ==
    {i \in 1..Len(rows) : /\ rows[i].user_id = user_id
                          /\ rows[i].faculty_id = faculty_id
                          /\ rows[i].stage_type = stage}

\* a delete that leaves the key in place
RedisDeleteNothing(store, none, key) == store

\* NotificationService.send_message: the chat is reached or it is not; every
\* failure is logged and answered with False
send_message(sent, chat_id, delivered) ==
    IF delivered THEN sent \cup {chat_id} ELSE sent

\* redis.delete(key)
RedisDelete(store, none, key) == [store EXCEPT ![key] = none]

FirstProgress(rows, user_id, faculty_id, stage) ==
    LET m == ProgressMatches(rows, user_id, faculty_id, stage)
    IN  IF m = {} THEN 0 ELSE CHOOSE i \in m : \A j \in m : i <= j

\* ------------------------------------------------------ request workers
NoReq == [telegram_id |-> 0, faculty_id |-> 0, template_id |-> 0, answers |-> NoAnswers]
\* gate: what the stage checks will answer on the faculty row the session read
NoLoc == [gate |-> "none", pending_user |-> FALSE, progress_idx |-> 0]
NoResult == [kind |-> "none", missing |-> {}]
NoDraft == [template_id |-> 0, answers |-> NoAnswers]
NoSave == [at |-> NoTime, draft |-> NoDraft, seq |-> 0]

Free(q) == pc[q] \in {"idle", "done"}
Quiet == \A q \in Procs : Free(q)

\* another session holds an uncommitted INSERT of the users row of telegram id a:
\* a second INSERT of the same unique key waits for it
UserInsertPending(p, a) ==
    \E q \in Procs \ {p} : loc[q].pending_user /\ req[q].telegram_id = a

GateOpen(f) ==
    faculty[f].current_stage = QUESTIONNAIRE /\ faculty[f].stage_status = OPEN

HasSubmitted(rows, user_id, faculty_id, stage) ==
    \E i \in ProgressMatches(rows, user_id, faculty_id, stage) :
        rows[i].status \in {SUBMITTED, APPROVED}

\* the handler returns: its session closes (what was not committed is rolled
\* back) and its locals are gone
Return(p, kind, missing) ==
    /\ pc' = [pc EXCEPT ![p] = "done"]
    /\ result' = [result EXCEPT ![p] = [kind |-> kind, missing |-> missing]]
    /\ loc' = [loc EXCEPT ![p] = NoLoc]
    /\ req' = [req EXCEPT ![p] = NoReq]
    /\ fresh' = (serial /\ kind = "ok")

\* what runs between get_or_create_user and the next awaited select
AfterUser(p, pending) ==
    IF loc[p].gate # "pass" THEN Return(p, loc[p].gate, {})
    ELSE IF ~TemplateCheck(req[p].template_id, ActiveTemplate(req[p].faculty_id))
         THEN Return(p, "template_outdated", {})
    ELSE /\ pc' = [pc EXCEPT ![p] = "select_existing"]
         /\ loc' = [loc EXCEPT ![p].pending_user = pending]
         /\ UNCHANGED <<req, result, fresh>>

\* get_faculty_with_template: the faculty row and its active template are read.
\* A request goes to the first free worker.
SubmitBegin(p, a, f, t, ans) ==
    LET r == [telegram_id |-> a, faculty_id |-> f, template_id |-> t, answers |-> ans]
    IN  /\ Free(p) /\ \A q \in Procs : q < p => ~Free(q)
        /\ nSubmits < MaxSubmits
        /\ serial => Quiet
        /\ nSubmits' = nSubmits + 1
        /\ req' = [req EXCEPT ![p] = r]
        /\ loc' = [loc EXCEPT ![p] =
                     [gate |-> StageCheck(faculty[f].current_stage, faculty[f].stage_status),
                      pending_user |-> FALSE, progress_idx |-> 0]]
        /\ pc' = [pc EXCEPT ![p] = "select_user"]
        /\ result' = [result EXCEPT ![p] = NoResult]
        /\ replay' = [replay EXCEPT ![p] =
                        /\ fresh
                        /\ questionnaires # << >>
                        /\ questionnaires[Len(questionnaires)] = NewQuestionnaire(a, f, t, ans)]
        /\ sawSubmitted' = [sawSubmitted EXCEPT ![p] =
                        HasSubmitted(progress, a, f, QUESTIONNAIRE)]
        /\ issuedOpen' = [issuedOpen EXCEPT ![p] = GateOpen(f)]
        /\ fresh' = FALSE
        /\ UNCHANGED <<dbvars, draftvars, modes, sidevars, now, capvars>>

\* get_or_create_user: select(User).where(telegram_id == ..)
SubmitSelectUser(p) ==
    /\ pc[p] = "select_user"
    /\ IF users[req[p].telegram_id] # 0
       THEN AfterUser(p, FALSE)
       ELSE /\ pc' = [pc EXCEPT ![p] = "flush_user"]
            /\ UNCHANGED <<req, loc, result, fresh>>
    /\ UNCHANGED <<dbvars, draftvars, replay, sawSubmitted, issuedOpen, nSubmits, modes, sidevars, now, capvars>>

\* get_or_create_user: db.add(user); flush. users.telegram_id is unique.
SubmitFlushUser(p) ==
    /\ pc[p] = "flush_user"
    /\ ~UserInsertPending(p, req[p].telegram_id)
    /\ IF users[req[p].telegram_id] # 0
       THEN Return(p, "integrity_error", {})
       ELSE AfterUser(p, TRUE)
    /\ UNCHANGED <<dbvars, draftvars, replay, sawSubmitted, issuedOpen, nSubmits, modes, sidevars, now, capvars>>

\* the already-submitted check, then the required-field validation
SubmitSelectExisting(p) ==
    /\ pc[p] = "select_existing"
    /\ IF ExistingQuestionnaire(questionnaires, req[p].telegram_id, req[p].faculty_id)
       THEN Return(p, "already_submitted", {})
       ELSE LET m == MissingAnswers(ActiveTemplate(req[p].faculty_id).questions,
                                    req[p].answers)
            IN  IF m # {} THEN Return(p, "validation_error", m)
                ELSE /\ pc' = [pc EXCEPT ![p] = "select_progress"]
                     /\ UNCHANGED <<req, loc, result, fresh>>
    /\ UNCHANGED <<dbvars, draftvars, replay, sawSubmitted, issuedOpen, nSubmits, modes, sidevars, now, capvars>>

\* select(UserProgress) for the questionnaire stage
SubmitSelectProgress(p) ==
    /\ pc[p] = "select_progress"
    /\ loc' = [loc EXCEPT ![p].progress_idx =
                 FirstProgress(progress, req[p].telegram_id, req[p].faculty_id,
                               QUESTIONNAIRE)]
    /\ pc' = [pc EXCEPT ![p] = "commit"]
    /\ UNCHANGED <<dbvars, draftvars, req, result, replay, sawSubmitted, issuedOpen, fresh,
                   nSubmits, modes, sidevars, now, capvars>>

\* db.commit(): the session's rows become durable together
SubmitCommit(p) ==
    LET a == req[p].telegram_id
        f == req[p].faculty_id
        i == loc[p].progress_idx
    IN  /\ pc[p] = "commit"
        /\ users' = IF loc[p].pending_user THEN [users EXCEPT ![a] = f] ELSE users
        /\ questionnaires' = Append(questionnaires,
                                NewQuestionnaire(a, f, req[p].template_id, req[p].answers))
        /\ approvals' = approvals \o NewApprovalRows(a, f, req[p].answers)
        /\ progress' = IF i # 0
                       THEN [progress EXCEPT ![i].status = SUBMITTED,
                                             ![i].submitted_at = now]
                       ELSE Append(progress, NewProgress(a, f, now))
        /\ loc' = [loc EXCEPT ![p].pending_user = FALSE]
        /\ pc' = [pc EXCEPT ![p] = "delete_draft"]
        /\ UNCHANGED <<faculty, draftvars, req, result, replay, sawSubmitted, issuedOpen,
                       fresh, nSubmits, modes, sidevars, now, capvars>>

\* a handler that would discard the draft before its commit: a failed discard
\* loses the request's questionnaire and approval rows
SubmitDeleteDraftBeforeCommit(p) ==
    /\ pc[p] = "delete_draft"
    /\ \E reachable \in (IF faults THEN BOOLEAN ELSE {TRUE}) :
          IF reachable
          THEN /\ drafts' = RedisDelete(drafts, NoDraft,
                                        <<req[p].telegram_id, req[p].faculty_id>>)
               /\ expires' = RedisDelete(expires, 0,
                                         <<req[p].telegram_id, req[p].faculty_id>>)
               /\ UNCHANGED <<questionnaires, approvals>>
               /\ Return(p, "ok", {})
          ELSE /\ UNCHANGED draftvars
               /\ questionnaires' = SubSeq(questionnaires, 1, Len(questionnaires) - 1)
               /\ approvals' = SubSeq(approvals, 1, Len(approvals) - 1)
               /\ Return(p, "draft_store_error", {})
    /\ UNCHANGED <<faculty, users, progress, replay, sawSubmitted, issuedOpen,
                   nSubmits, modes, sidevars, now, capvars>>

\* a handler that reports whether there was a draft to discard
SubmitDeleteDraftReportsMissing(p) ==
    /\ pc[p] = "delete_draft"
    /\ drafts' = RedisDelete(drafts, NoDraft, <<req[p].telegram_id, req[p].faculty_id>>)
    /\ expires' = RedisDelete(expires, 0, <<req[p].telegram_id, req[p].faculty_id>>)
    /\ UNCHANGED notified
    /\ Return(p, IF drafts[<<req[p].telegram_id, req[p].faculty_id>>] = NoDraft
                 THEN "no_draft" ELSE "ok", {})
    /\ UNCHANGED <<dbvars, replay, sawSubmitted, issuedOpen, nSubmits, modes,
                   faculties, home_videos, shadow, now, capvars>>

\* db.refresh(questionnaire); draft_service.delete_draft(telegram_id, faculty_id);
\* notify_questionnaire_submitted; the success response
\* redis.delete raises when the draft store is unreachable: the handler ends
\* with the error, after its commit
\* send_message answers False on every failure, which the handler ignores
SubmitDeleteDraft(p) ==
    /\ pc[p] = "delete_draft"
    /\ \E reachable, delivered \in (IF faults THEN BOOLEAN ELSE {TRUE}) :
          IF reachable
          THEN /\ drafts' = RedisDelete(drafts, NoDraft,
                                        <<req[p].telegram_id, req[p].faculty_id>>)
               /\ expires' = RedisDelete(expires, 0,
                                         <<req[p].telegram_id, req[p].faculty_id>>)
               /\ notified' = send_message(notified, req[p].telegram_id, delivered)
               /\ Return(p, "ok", {})
          ELSE /\ UNCHANGED <<draftvars, notified>>
               /\ Return(p, "draft_store_error", {})
    /\ UNCHANGED <<dbvars, replay, sawSubmitted, issuedOpen, nSubmits, modes,
                   faculties, home_videos, shadow, now, capvars>>

\* --------------------------------------------------------- draft store
\* DraftService over Redis: SET key value EX ttl, GET, DEL, TTL. A key whose
\* time to live has elapsed is gone.
\* redis.set(key, .., ex=self.ttl): the key expires ttl after the write
ExpireNever(t, ttl) == t + ttl + MaxClock + 1

ExpireAt(t, ttl) == t + ttl

\* redis.set replaces what the key held
UpsertKeepFirst(old, new) == IF old = NoDraft THEN new ELSE old

Upsert(old, new) == new

\* DraftService.get_draft: None when the key is absent
get_draft(a, f) == drafts[<<a, f>>]

\* DraftService.get_draft_ttl: seconds left, -2 when the key is absent
KeyAbsent == 0 - 2
get_draft_ttl(a, f) ==
    IF drafts[<<a, f>>] = NoDraft THEN KeyAbsent ELSE expires[<<a, f>>] - now

\* time passes to instant t: the keys whose expiry t has reached are removed
Tick(t) ==
    /\ t > now
    /\ now' = t
    /\ drafts' = [k \in DOMAIN drafts |->
                    IF expires[k] <= t THEN NoDraft ELSE drafts[k]]
    /\ expires' = [k \in DOMAIN expires |-> IF expires[k] <= t THEN 0 ELSE expires[k]]
    /\ fresh' = FALSE
    /\ UNCHANGED <<dbvars, procvars, nSubmits, modes, sidevars, capvars>>

\* a session closed without commit: what it changed is rolled back
RollbackKeepsChanges(committed, session) == session

Rollback(committed, session) == committed

\* get_or_create_user: the users row of the telegram id, added to the session
\* and flushed when there is none; the caller decides whether it is committed
get_or_create_user(rows, a, f) ==
    IF rows[a] = 0 THEN [rows EXCEPT ![a] = f] ELSE rows

\* ----------------------------------------------------- other operations
\* a handler that would refuse to complete a stage that never started
callback_set_stage_validated(f, new_stage, new_status) ==
    /\ serial => Quiet
    /\ faculty' = IF new_status = COMPLETED /\ faculty[f].stage_status = NOT_STARTED
                  THEN faculty
                  ELSE [faculty EXCEPT ![f] =
                          [current_stage |-> new_stage,
                           stage_status |-> new_status,
                           video_submission_open |->
                              IF new_stage = HOME_VIDEO /\ new_status = OPEN THEN TRUE
                              ELSE IF new_stage = HOME_VIDEO /\ new_status = CLOSED
                                   THEN FALSE
                              ELSE faculty[f].video_submission_open]]
    /\ fresh' = FALSE
    /\ UNCHANGED <<ledger, draftvars, procvars, nSubmits, modes, sidevars, now, schedvars, saved>>

\* a handler that opens the video intake but never closes it
callback_set_stage_never_closes(f, new_stage, new_status) ==
    /\ serial => Quiet
    /\ faculty' = [faculty EXCEPT ![f] =
          [current_stage |-> new_stage,
           stage_status |-> new_status,
           video_submission_open |->
              IF new_stage = HOME_VIDEO /\ new_status = OPEN THEN TRUE
              ELSE faculty[f].video_submission_open]]
    /\ fresh' = FALSE
    /\ UNCHANGED <<ledger, draftvars, procvars, nSubmits, modes, sidevars, now, schedvars, saved>>

\* bot/handlers/admin.py callback_set_stage
callback_set_stage(f, new_stage, new_status) ==
    /\ serial => Quiet
    /\ faculty' = [faculty EXCEPT ![f] =
          [current_stage |-> new_stage,
           stage_status |-> new_status,
           video_submission_open |->
              IF new_stage = HOME_VIDEO /\ new_status = OPEN THEN TRUE
              ELSE IF new_stage = HOME_VIDEO /\ new_status = CLOSED THEN FALSE
              ELSE faculty[f].video_submission_open]]
    /\ fresh' = FALSE
    /\ UNCHANGED <<ledger, draftvars, procvars, nSubmits, modes, sidevars, now, schedvars, saved>>

\* POST /questionnaire/{faculty_id}/draft
save_draft(a, f, t, ans) ==
    /\ serial => Quiet
    /\ users[a] = 0 => ~UserInsertPending(0, a)
    /\ TemplateExists(t) /\ ActiveTemplate(t).faculty_id = f
    /\ drafts' = [drafts EXCEPT ![<<a, f>>] =
                     Upsert(@, [template_id |-> t, answers |-> ans])]
    /\ expires' = [expires EXCEPT ![<<a, f>>] = ExpireAt(now, DraftTtl)]
    /\ users' = Rollback(users, get_or_create_user(users, a, f))
    /\ fresh' = FALSE
    /\ UNCHANGED <<faculty, questionnaires, approvals, progress, procvars, nSubmits,
                   modes, sidevars, now, schedvars, stageReq>>

\* DELETE /questionnaire/{faculty_id}/draft
delete_draft(a, f) ==
    /\ serial => Quiet
    /\ users[a] = 0 => ~UserInsertPending(0, a)
    /\ drafts[<<a, f>>] # NoDraft
    /\ drafts' = RedisDelete(drafts, NoDraft, <<a, f>>)
    /\ expires' = RedisDelete(expires, 0, <<a, f>>)
    /\ users' = Rollback(users, get_or_create_user(users, a, f))
    /\ fresh' = FALSE
    /\ UNCHANGED <<faculty, questionnaires, approvals, progress, procvars, nSubmits,
                   modes, sidevars, now, schedvars, stageReq>>

\* POST /questionnaire/dev/seed: the test user is created when absent
seed_dev_data ==
    /\ serial => Quiet
    /\ users[DevTelegramId] = 0
    /\ ~UserInsertPending(0, DevTelegramId)
    /\ users' = [users EXCEPT ![DevTelegramId] = DevFacultyId]
    /\ fresh' = FALSE
    /\ UNCHANGED <<faculty, questionnaires, approvals, progress, draftvars, procvars,
                   nSubmits, modes, sidevars, now, capvars>>

\* ============================================================ scheduling
\* Interview days with hourly time slots (routers/interview_days.py), ad-hoc
\* interview slots (routers/interview_slots.py) and the bookings on them.
subvars == <<faculty, users, questionnaires, approvals, progress, drafts,
             pc, req, loc, result, replay, sawSubmitted, issuedOpen, fresh,
             nSubmits, serial, now, expires, faults, stageReq, saved, sidevars>>

Days == 1..NumDays
\* a day that predates the time_slots table, when there is one, has no slot
\* rows yet
LegacyDay == 1
\* TIME_SLOTS, the hours of a day, cut down to NumHours
TIME_SLOTS == 10..(10 + NumHours - 1)
TimeSlotIds == Days \X TIME_SLOTS
SlotIds == 1..NumSlots

SCHEDULED == "scheduled"
CANCELLED == "cancelled"

NoTimeSlot == [exists |-> FALSE, max_participants |-> 0, current_participants |-> 0]
NewTimeSlot == [exists |-> TRUE, max_participants |-> 0, current_participants |-> 0]
NoSlot == [exists |-> FALSE, datetime_start |-> 0, datetime_end |-> 0,
           max_participants |-> 0, location |-> "", is_active |-> FALSE]
NewSlot(m) == [exists |-> TRUE, datetime_start |-> 1, datetime_end |-> 3,
               max_participants |-> m, location |-> "A", is_active |-> TRUE]

\* TimeSlotUpdate.max_participants (ge=0); InterviewSlotCreate/Update (ge=1)
TimeSlotCapacities == 0..MaxCapacity
SlotCapacities == 1..MaxCapacity

\* InterviewSlotUpdate bodies; 0, "" and "none" stand for a field left out
NoBody == [datetime_start |-> 0, datetime_end |-> 0, max_participants |-> 0,
           location |-> "", is_active |-> "none"]
UpdateBodies ==
    {[NoBody EXCEPT !.max_participants = m] : m \in SlotCapacities}
    \cup {[datetime_start |-> 2, datetime_end |-> 0, max_participants |-> m,
           location |-> "B", is_active |-> "false"] : m \in SlotCapacities}
    \cup {[NoBody EXCEPT !.datetime_start = 3]}

\* user: the reviewer of an availability request, 0 for every other request
NoLast == [op |-> "none", day |-> 0, hour |-> 0, slot |-> 0, user |-> 0,
           body |-> NoBody, kind |-> "none"]
Answer(op, d, h, sl, a, body, kind) ==
    [op |-> op, day |-> d, hour |-> h, slot |-> sl, user |-> 0,
     body |-> body, kind |-> kind]

\* administrators who review; the head admin is one of them
Reviewers == 1..NumReviewers
HeadAdmin == 1
NoMark == [exists |-> FALSE, available |-> FALSE]
NoStageReq ==
    [faculty |-> 0, stage |-> NONE, status |-> NOT_STARTED,
     from_stage |-> NONE, from_status |-> NOT_STARTED, from_open |-> FALSE, seq |-> 0]

\* the occupancy guard of update_time_slot and update_interview_slot
BelowOccupancyNever(max_participants, current_participants) == FALSE

BelowOccupancy(max_participants, current_participants) ==
    max_participants < current_participants

\* the TimeSlot rows both creation paths add for a day
DaySlots(slots, d) ==
    [k \in TimeSlotIds |-> IF k[1] = d THEN NewTimeSlot ELSE slots[k]]

HasTimeSlots(d) == \E h \in TIME_SLOTS : time_slots[<<d, h>>].exists

\* the clock counts hours; day d is the calendar date d, its slot of hour h
\* starts at hour h of that date
Today(t) == t \div 24
TimeSlotStart(k) == 24 * k[1] + k[2]

\* POST /interview-days/{faculty_id}: a date before today is refused
create_interview_day(d) ==
    /\ ~days[d]
    /\ IF d < Today(now)
       THEN /\ last' = Answer("create_interview_day", d, 0, 0, 0, NoBody, "past")
            /\ UNCHANGED <<days, time_slots>>
       ELSE /\ days' = [days EXCEPT ![d] = TRUE]
            /\ time_slots' = DaySlots(time_slots, d)
            /\ last' = Answer("create_interview_day", d, 0, 0, 0, NoBody, "ok")
    /\ UNCHANGED <<interview_slots, interviews, subvars, availvars>>

\* GET /interview-days/{faculty_id}: a day found without slots gets them
get_interview_days ==
    LET bare == {d \in Days : days[d] /\ ~HasTimeSlots(d)}
    IN  /\ bare # {}
        /\ time_slots' = [k \in TimeSlotIds |->
                            IF k[1] \in bare THEN NewTimeSlot ELSE time_slots[k]]
        /\ last' = Answer("get_interview_days", 0, 0, 0, 0, NoBody, "ok")
        /\ UNCHANGED <<days, interview_slots, interviews, subvars, availvars>>

\* PUT /interview-days/time-slots/{time_slot_id}
update_time_slot(k, m) ==
    LET time_slot == time_slots[k]
        changed == [time_slots EXCEPT ![k].max_participants = m]
        kind == IF ~time_slot.exists THEN "not_found"
                ELSE IF BelowOccupancy(m, time_slot.current_participants)
                     THEN "below_occupancy"
                ELSE "ok"
    IN  /\ time_slots' = IF kind = "ok" THEN changed ELSE time_slots
        /\ last' = Answer("update_time_slot", k[1], k[2], 0, 0,
                          [NoBody EXCEPT !.max_participants = m], kind)
        /\ UNCHANGED <<days, interview_slots, interviews, subvars, availvars>>

\* POST /interview-slots/{faculty_id}
create_interview_slot(sl, m) ==
    /\ ~interview_slots[sl].exists
    /\ IF NewSlot(m).datetime_start < now
       THEN /\ last' = Answer("create_interview_slot", 0, 0, sl, 0,
                              [NoBody EXCEPT !.max_participants = m], "past")
            /\ UNCHANGED <<interview_slots, slot_availability>>
       ELSE /\ interview_slots' = [interview_slots EXCEPT ![sl] = NewSlot(m)]
            /\ slot_availability' =
                  [slot_availability EXCEPT
                     ![<<sl, HeadAdmin>>] = [exists |-> TRUE, available |-> TRUE]]
            /\ last' = Answer("create_interview_slot", 0, 0, sl, 0,
                              [NoBody EXCEPT !.max_participants = m], "ok")
    /\ UNCHANGED <<days, time_slots, interviews, subvars, time_slot_availability>>

\* select(func.count(Interview.id)).where(slot_id == .., status != "cancelled")
SlotParticipants(rows, sl) ==
    Cardinality({r \in rows : r.slot_id = sl /\ r.status # CANCELLED})

\* PUT /interview-slots/{slot_id}: the fields are set on the session's row in
\* the order of the code; an HTTPException leaves the session uncommitted
update_interview_slot(sl, data) ==
    LET slot == interview_slots[sl]
        current_participants == SlotParticipants(interviews, sl)
        s1 == IF data.datetime_start # 0
              THEN [slot EXCEPT !.datetime_start = data.datetime_start] ELSE slot
        s2 == IF data.datetime_end # 0
              THEN [s1 EXCEPT !.datetime_end = data.datetime_end] ELSE s1
        below == /\ data.max_participants # 0
                 /\ BelowOccupancy(data.max_participants, current_participants)
        s3 == IF data.max_participants # 0
              THEN [s2 EXCEPT !.max_participants = data.max_participants] ELSE s2
        s4 == IF data.location # "" THEN [s3 EXCEPT !.location = data.location] ELSE s3
        s5 == IF data.is_active # "none"
              THEN [s4 EXCEPT !.is_active = (data.is_active = "true")] ELSE s4
        kind == IF ~slot.exists THEN "not_found"
                ELSE IF below THEN "below_occupancy"
                ELSE IF s5.datetime_start >= s5.datetime_end THEN "bad_time"
                ELSE "ok"
    IN  /\ interview_slots' =
              CASE kind = "ok" -> [interview_slots EXCEPT ![sl] = s5]
                [] kind = "below_occupancy" ->
                     Rollback(interview_slots, [interview_slots EXCEPT ![sl] = s2])
                [] kind = "bad_time" ->
                     Rollback(interview_slots, [interview_slots EXCEPT ![sl] = s5])
                [] OTHER -> interview_slots
        /\ last' = Answer("update_interview_slot", 0, 0, sl, 0, data, kind)
        /\ UNCHANGED <<days, time_slots, interviews, subvars, availvars>>

\* POST /time-slots/{time_slot_id}/availability by reviewer r: refused when the
\* day's date is before today; a mark already there is answered without a write
set_time_slot_availability(k, r) ==
    LET kind == IF ~time_slots[k].exists THEN "not_found"
                ELSE IF k[1] < Today(now) THEN "past_slot"
                ELSE "ok"
    IN  /\ time_slot_availability' =
              IF kind = "ok" /\ ~time_slot_availability[<<k, r>>]
              THEN [time_slot_availability EXCEPT ![<<k, r>>] = TRUE]
              ELSE time_slot_availability
        /\ last' = [Answer("set_time_slot_availability", k[1], k[2], 0, 0, NoBody, kind)
                      EXCEPT !.user = r]
        /\ UNCHANGED <<days, time_slots, interview_slots, interviews,
                       slot_availability, subvars>>

\* DELETE /time-slots/{time_slot_id}/availability by reviewer r
remove_time_slot_availability(k, r) ==
    LET kind == IF ~time_slots[k].exists THEN "not_found"
                ELSE IF ~time_slot_availability[<<k, r>>] THEN "no_mark"
                ELSE "ok"
    IN  /\ time_slot_availability' =
              IF kind = "ok"
              THEN [time_slot_availability EXCEPT ![<<k, r>>] = FALSE]
              ELSE time_slot_availability
        /\ last' = [Answer("remove_time_slot_availability", k[1], k[2], 0, 0, NoBody, kind)
                      EXCEPT !.user = r]
        /\ UNCHANGED <<days, time_slots, interview_slots, interviews,
                       slot_availability, subvars>>

\* POST /interview-slots/{slot_id}/availability?available=.. by reviewer r:
\* refused when datetime_start is before now; else the row is updated or added
set_availability(sl, available, r) ==
    LET kind == IF ~interview_slots[sl].exists THEN "not_found"
                ELSE IF interview_slots[sl].datetime_start < now THEN "past_slot"
                ELSE "ok"
    IN  /\ slot_availability' =
              IF kind = "ok"
              THEN [slot_availability EXCEPT
                      ![<<sl, r>>] = [exists |-> TRUE, available |-> available]]
              ELSE slot_availability
        /\ last' = [Answer("set_availability", 0, 0, sl, 0, NoBody, kind)
                      EXCEPT !.user = r]
        /\ UNCHANGED <<days, time_slots, interview_slots, interviews,
                       time_slot_availability, subvars>>

\* DELETE /interview-slots/{slot_id}/availability by reviewer r
remove_availability(sl, r) ==
    LET kind == IF ~interview_slots[sl].exists THEN "not_found"
                ELSE IF ~slot_availability[<<sl, r>>].exists THEN "no_mark"
                ELSE "ok"
    IN  /\ slot_availability' =
              IF kind = "ok"
              THEN [slot_availability EXCEPT ![<<sl, r>>] = NoMark]
              ELSE slot_availability
        /\ last' = [Answer("remove_availability", 0, 0, sl, 0, NoBody, kind)
                      EXCEPT !.user = r]
        /\ UNCHANGED <<days, time_slots, interview_slots, interviews,
                       time_slot_availability, subvars>>

\* DELETE /interview-days/{day_id}: the count takes every Interview row of the
\* day's time slots; db.delete(day) takes the slots and their marks along
delete_interview_day(d) ==
    LET current_participants == Cardinality({r \in interviews : r.time_slot_id[1] = d})
        kind == IF ~days[d] THEN "not_found"
                ELSE IF current_participants > 0 THEN "has_bookings"
                ELSE "ok"
    IN  /\ days' = IF kind = "ok" THEN [days EXCEPT ![d] = FALSE] ELSE days
        /\ time_slots' = IF kind = "ok"
                         THEN [k \in TimeSlotIds |->
                                 IF k[1] = d THEN NoTimeSlot ELSE time_slots[k]]
                         ELSE time_slots
        /\ time_slot_availability' =
              IF kind = "ok"
              THEN [m \in DOMAIN time_slot_availability |->
                      IF m[1][1] = d THEN FALSE ELSE time_slot_availability[m]]
              ELSE time_slot_availability
        /\ last' = Answer("delete_interview_day", d, 0, 0, 0, NoBody, kind)
        /\ UNCHANGED <<interview_slots, interviews, slot_availability, subvars>>

\* DELETE /interview-slots/{slot_id}: the count leaves cancelled rows out;
\* interviews.slot_id is SET NULL, the slot's marks go with it
delete_interview_slot(sl) ==
    LET current_participants == SlotParticipants(interviews, sl)
        kind == IF ~interview_slots[sl].exists THEN "not_found"
                ELSE IF current_participants > 0 THEN "has_bookings"
                ELSE "ok"
    IN  /\ interview_slots' = IF kind = "ok"
                              THEN [interview_slots EXCEPT ![sl] = NoSlot]
                              ELSE interview_slots
        /\ interviews' = IF kind = "ok"
                         THEN {IF r.slot_id = sl THEN [r EXCEPT !.slot_id = 0] ELSE r :
                                 r \in interviews}
                         ELSE interviews
        /\ slot_availability' =
              IF kind = "ok"
              THEN [m \in DOMAIN slot_availability |->
                      IF m[1] = sl THEN NoMark ELSE slot_availability[m]]
              ELSE slot_availability
        /\ last' = Answer("delete_interview_slot", 0, 0, sl, 0, NoBody, kind)
        /\ UNCHANGED <<days, time_slots, time_slot_availability, subvars>>

\* -------------------------------------------------- CapacityScheduler
\* book and cancel as the specification's section 4.4 states them: the
\* occupancy check, the booking row and the counter change are one atomic step.
NoTimeSlotId == <<0, 0>>
Booking(a, k, sl, st) == [user_id |-> a, time_slot_id |-> k, slot_id |-> sl, status |-> st]

bookTimeSlotUnchecked(a, k) ==
    /\ time_slots[k].exists
    /\ interviews' = interviews \cup {Booking(a, k, 0, SCHEDULED)}
    /\ time_slots' = [time_slots EXCEPT ![k].current_participants = @ + 1]
    /\ last' = Answer("book", k[1], k[2], 0, a, NoBody, "ok")
    /\ UNCHANGED <<days, interview_slots, subvars, availvars>>

bookTimeSlot(a, k) ==
    LET u == time_slots[k]
        kind == IF ~u.exists THEN "not_found"
                ELSE IF u.current_participants >= u.max_participants THEN "slot_full"
                ELSE IF Booking(a, k, 0, SCHEDULED) \in interviews THEN "already_booked"
                ELSE "ok"
    IN  /\ interviews' = IF kind = "ok"
                         THEN interviews \cup {Booking(a, k, 0, SCHEDULED)}
                         ELSE interviews
        /\ time_slots' = IF kind = "ok"
                         THEN [time_slots EXCEPT ![k].current_participants = @ + 1]
                         ELSE time_slots
        /\ last' = Answer("book", k[1], k[2], 0, a, NoBody, kind)
        /\ UNCHANGED <<days, interview_slots, subvars, availvars>>

cancelTimeSlot(a, k) ==
    LET kind == IF Booking(a, k, 0, SCHEDULED) \in interviews THEN "ok"
                ELSE IF Booking(a, k, 0, CANCELLED) \in interviews THEN "noop"
                ELSE "not_found"
    IN  /\ interviews' = IF kind = "ok"
                         THEN (interviews \ {Booking(a, k, 0, SCHEDULED)})
                                 \cup {Booking(a, k, 0, CANCELLED)}
                         ELSE interviews
        /\ time_slots' = IF kind = "ok"
                         THEN [time_slots EXCEPT ![k].current_participants = @ - 1]
                         ELSE time_slots
        /\ last' = Answer("cancel", k[1], k[2], 0, a, NoBody, kind)
        /\ UNCHANGED <<days, interview_slots, subvars, availvars>>

bookSlot(a, sl) ==
    LET u == interview_slots[sl]
        kind == IF ~u.exists THEN "not_found"
                ELSE IF SlotParticipants(interviews, sl) >= u.max_participants
                     THEN "slot_full"
                ELSE IF Booking(a, NoTimeSlotId, sl, SCHEDULED) \in interviews
                     THEN "already_booked"
                ELSE "ok"
    IN  /\ interviews' = IF kind = "ok"
                         THEN interviews \cup {Booking(a, NoTimeSlotId, sl, SCHEDULED)}
                         ELSE interviews
        /\ last' = Answer("book", 0, 0, sl, a, NoBody, kind)
        /\ UNCHANGED <<days, time_slots, interview_slots, subvars, availvars>>

cancelSlot(a, sl) ==
    LET kind == IF Booking(a, NoTimeSlotId, sl, SCHEDULED) \in interviews THEN "ok"
                ELSE IF Booking(a, NoTimeSlotId, sl, CANCELLED) \in interviews THEN "noop"
                ELSE "not_found"
    IN  /\ interviews' = IF kind = "ok"
                         THEN (interviews \ {Booking(a, NoTimeSlotId, sl, SCHEDULED)})
                                 \cup {Booking(a, NoTimeSlotId, sl, CANCELLED)}
                         ELSE interviews
        /\ last' = Answer("cancel", 0, 0, sl, a, NoBody, kind)
        /\ UNCHANGED <<days, time_slots, interview_slots, subvars, availvars>>

\* the reference run before its first request
NoShadow ==
    [faculty |-> [f \in Faculties |->
                    [current_stage |-> NONE, stage_status |-> NOT_STARTED,
                     video_submission_open |-> FALSE]],
     users |-> [a \in Applicants |-> 0],
     questionnaires |-> << >>, approvals |-> << >>, progress |-> << >>,
     kind |-> "none", missing |-> {}, n |-> 0, stageSeq |-> 0]

\* ------------------------------------------------------- specifications
\* Faculties as confirm_create_faculty leaves them, with the template in place.
InitStore ==
    /\ faculty = [f \in Faculties |->
                    [current_stage |-> NONE, stage_status |-> NOT_STARTED,
                     video_submission_open |-> FALSE]]
    /\ users = [a \in Applicants |-> 0]
    /\ questionnaires = << >>
    /\ approvals = << >>
    /\ progress = << >>
    /\ drafts = [k \in Applicants \X Faculties |-> NoDraft]
    /\ pc = [p \in Procs |-> "idle"]
    /\ req = [p \in Procs |-> NoReq]
    /\ loc = [p \in Procs |-> NoLoc]
    /\ result = [p \in Procs |-> NoResult]
    /\ replay = [p \in Procs |-> FALSE]
    /\ sawSubmitted = [p \in Procs |-> FALSE]
    /\ issuedOpen = [p \in Procs |-> FALSE]
    /\ fresh = FALSE
    /\ nSubmits = 0
    /\ now = 0
    /\ time_slots = [k \in TimeSlotIds |-> NoTimeSlot]
    /\ interview_slots = [sl \in SlotIds |-> NoSlot]
    /\ interviews = {}
    /\ last = NoLast
    /\ expires = [k \in Applicants \X Faculties |-> 0]
    /\ stageReq = NoStageReq
    /\ saved = [k \in Applicants \X Faculties |-> NoSave]
    /\ faculties = Faculties
    /\ home_videos = << >>
    /\ notified = {}
    /\ shadow = NoShadow
    /\ slot_availability = [k \in SlotIds \X Reviewers |-> NoMark]
    /\ time_slot_availability = [k \in TimeSlotIds \X Reviewers |-> FALSE]

NoDays == [d \in Days |-> FALSE]
Init == InitStore /\ serial = FALSE /\ faults = FALSE /\ days = NoDays
InitSerial == InitStore /\ serial = TRUE /\ faults = FALSE /\ days = NoDays
\* one request at a time, the draft store may fail
InitFaults == InitStore /\ serial = TRUE /\ faults = TRUE /\ days = NoDays
\* the scheduling tables start empty, or with the legacy day
InitCapacity ==
    /\ InitStore /\ serial = TRUE /\ faults = FALSE
    /\ days \in {NoDays, [d \in Days |-> d = LegacyDay]}

Submit ==
    \E p \in Procs :
        \/ \E a \in Applicants, f \in Faculties : \E b \in SubmitBodies(f) :
              SubmitBegin(p, a, f, b[1], b[2])
        \/ SubmitSelectUser(p)
        \/ SubmitFlushUser(p)
        \/ SubmitSelectExisting(p)
        \/ SubmitSelectProgress(p)
        \/ SubmitCommit(p)
        \/ SubmitDeleteDraft(p)

SetStage ==
    \E f \in Faculties, b \in StageButtons :
        callback_set_stage(f, b[1], b[2]) /\ UNCHANGED stageReq

SaveDraft ==
    \E a \in Applicants, f \in Faculties, ans \in DraftAnswers :
        save_draft(a, f, ActiveTemplate(f).id, ans) /\ UNCHANGED saved

DeleteDraft ==
    \E a \in Applicants, f \in Faculties : delete_draft(a, f) /\ UNCHANGED saved

Next == Submit \/ SetStage \/ SaveDraft \/ DeleteDraft \/ seed_dev_data

CreateDay == \E d \in Days : create_interview_day(d)
UpdateTimeSlot == \E k \in TimeSlotIds, m \in TimeSlotCapacities : update_time_slot(k, m)
CreateSlot == \E sl \in SlotIds, m \in SlotCapacities : create_interview_slot(sl, m)
UpdateSlot == \E sl \in SlotIds, data \in UpdateBodies : update_interview_slot(sl, data)
Book ==
    \E a \in Applicants :
        \/ \E k \in TimeSlotIds : bookTimeSlot(a, k)
        \/ \E sl \in SlotIds : bookSlot(a, sl)
Cancel ==
    \E a \in Applicants :
        \/ \E k \in TimeSlotIds : cancelTimeSlot(a, k)
        \/ \E sl \in SlotIds : cancelSlot(a, sl)

DeleteDay == \E d \in Days : delete_interview_day(d)
DeleteSlot == \E sl \in SlotIds : delete_interview_slot(sl)

NextCapacity ==
    CreateDay \/ get_interview_days \/ UpdateTimeSlot \/ CreateSlot \/ UpdateSlot
        \/ Book \/ Cancel \/ DeleteDay \/ DeleteSlot

\* requests of concurrent workers interleave at every awaited store access
\* instants the clock is moved to: after the ad-hoc slots' start, after each
\* day's time slots on the same date, and after the last day
Instants ==
    {2} \cup {TimeSlotStart(<<d, 10 + NumHours>>) : d \in Days}
        \cup {24 * (NumDays + 1)}

SetTimeSlotAvailability ==
    \E k \in TimeSlotIds, r \in Reviewers : set_time_slot_availability(k, r)
RemoveTimeSlotAvailability ==
    \E k \in TimeSlotIds, r \in Reviewers : remove_time_slot_availability(k, r)
SetAvailability ==
    \E sl \in SlotIds, available \in BOOLEAN, r \in Reviewers :
        set_availability(sl, available, r)
RemoveAvailability ==
    \E sl \in SlotIds, r \in Reviewers : remove_availability(sl, r)

NextAvailability ==
    CreateDay \/ CreateSlot \/ (\E t \in Instants : Tick(t))
        \/ SetTimeSlotAvailability \/ RemoveTimeSlotAvailability
        \/ SetAvailability \/ RemoveAvailability

Spec == Init /\ [][Next]_vars
\* one request at a time
SpecSerial == InitSerial /\ [][Next]_vars
\* the scheduling requests, each served as one transaction
\* saves of either answer set, discards and the passing of time
SaveDraftAny ==
    \E a \in Applicants, f \in Faculties, ans \in {AnsNoChoice, AnsComplete} :
        /\ save_draft(a, f, ActiveTemplate(f).id, ans)
        /\ saved' = [saved EXCEPT ![<<a, f>>] =
                        [at |-> now,
                         draft |-> [template_id |-> ActiveTemplate(f).id, answers |-> ans],
                         seq |-> 1 - @.seq]]

DiscardDraft ==
    \E a \in Applicants, f \in Faculties :
        delete_draft(a, f) /\ saved' = [saved EXCEPT ![<<a, f>>] = NoSave]

Pass == \E t \in 1..MaxClock : Tick(t)

SpecDraft == InitSerial /\ [][SaveDraftAny \/ DiscardDraft \/ Pass]_vars

\* submits among saves and discards of drafts, one request at a time
NextSubmitDraft == Submit \/ SetStage \/ SaveDraftAny \/ DiscardDraft \/ seed_dev_data

SpecSubmitDraft == InitSerial /\ [][NextSubmitDraft]_vars
SpecFaults == InitFaults /\ [][NextSubmitDraft]_vars

\* callback data naming any stage and any status
SetStageAny ==
    \E f \in Faculties, new_stage \in StageType, new_status \in StageStatus :
        /\ callback_set_stage(f, new_stage, new_status)
        /\ stageReq' = [faculty |-> f, stage |-> new_stage, status |-> new_status,
                        from_stage |-> faculty[f].current_stage,
                        from_status |-> faculty[f].stage_status,
                        from_open |-> faculty[f].video_submission_open,
                        seq |-> 1 - stageReq.seq]

SpecStage == InitSerial /\ [][SetStageAny]_vars
SpecAvailability == InitSerial /\ [][NextAvailability]_vars
SpecCapacity == InitCapacity /\ [][NextCapacity]_vars

\* ========================================================== properties
\* vocabulary of the statements, independent of the handler's operators
Busy(p) == ~Free(p)
RowsOf(a, f) ==
    {i \in 1..Len(questionnaires) :
        questionnaires[i].user_id = a /\ questionnaires[i].faculty_id = f}
PastChecks == {"select_progress", "commit", "delete_draft"}
StageRefusals == {"stage_not_active", "stage_closed"}
RequiredIds == {"q1", "q2", "q3"}
LeftOut(ans) == {q \in RequiredIds : q \notin DOMAIN ans \/ ans[q] = ""}

\* C1: under one-at-a-time service, a submit that repeats the call that has
\* just succeeded (same applicant, unit, template and answers) writes nothing
\* (ledger, users and draft store untouched while it runs), leaves exactly one
\* Questionnaire row of the pair, and ends refused as already-submitted.
C1_SecondSubmitRefused ==
    [][\A p \in Procs : (replay[p] /\ Busy(p)) =>
          /\ UNCHANGED <<ledger, drafts>>
          /\ Cardinality(RowsOf(req[p].telegram_id, req[p].faculty_id)) = 1
          /\ pc'[p] = "done" => result'[p].kind = "already_submitted"]_vars

C1_Witness ==
    \E p \in Procs : /\ replay[p] /\ pc[p] = "done"
                     /\ result[p].kind = "already_submitted"
                     /\ Len(questionnaires) = 1

\* C2: however submits interleave, an (applicant, unit) pair owns at most one
\* Questionnaire row.
C2_AtMostOneRow ==
    \A a \in Applicants, f \in Faculties : Cardinality(RowsOf(a, f)) <= 1

\* C3: a submit that read the unit while it was not (QUESTIONNAIRE, OPEN) never
\* gets past the checks, holds no pending insert, and ends refused (by a stage
\* refusal, or by the failure of a racing creation of its users row).
C3_ClosedGateRefuses ==
    \A p \in Procs : (pc[p] # "idle" /\ ~issuedOpen[p]) =>
        /\ pc[p] \in {"select_user", "flush_user", "done"}
        /\ ~loc[p].pending_user
        /\ pc[p] = "done" => result[p].kind \in StageRefusals \cup {"integrity_error"}

C3_Witness ==
    \E p \in Procs : /\ pc[p] = "done" /\ ~issuedOpen[p]
                     /\ result[p].kind = "stage_closed"
                     /\ questionnaires = << >> /\ users[DevTelegramId] # 0

\* C4: a submission is committed only while the unit is (QUESTIONNAIRE, OPEN)
\* at the moment of the commit.
C4_CommitOnlyWhileOpen ==
    [][questionnaires' # questionnaires =>
          \A f \in Faculties :
             (Len(questionnaires') > Len(questionnaires)
                /\ questionnaires'[Len(questionnaires')].faculty_id = f) => GateOpen(f)]_vars

\* C5: for every (applicant, unit) the Questionnaire row, the PENDING-created
\* ApprovalQueue row of the questionnaire stage and the UserProgress row of the
\* questionnaire stage (submitted_at set, status SUBMITTED or later) exist
\* together or not at all.
HasApproval(a, f) ==
    \E i \in 1..Len(approvals) :
        /\ approvals[i].user_id = a /\ approvals[i].faculty_id = f
        /\ approvals[i].stage_type = QUESTIONNAIRE
        /\ approvals[i].status \in {PENDING, APPROVED, REJECTED}
HasProgress(a, f) ==
    \E i \in 1..Len(progress) :
        /\ progress[i].user_id = a /\ progress[i].faculty_id = f
        /\ progress[i].stage_type = QUESTIONNAIRE
        /\ progress[i].submitted_at # NoTime
        /\ progress[i].status \in {SUBMITTED, APPROVED, REJECTED}
C5_AllOrNothing ==
    /\ Len(approvals) = Len(questionnaires)
    /\ \A a \in Applicants, f \in Faculties :
          /\ (RowsOf(a, f) # {}) <=> HasApproval(a, f)
          /\ (RowsOf(a, f) # {}) <=> HasProgress(a, f)

C5_Witness ==
    \E a \in Applicants, f \in Faculties :
        RowsOf(a, f) # {} /\ HasApproval(a, f) /\ HasProgress(a, f)

\* C6: a submit whose answers leave a required question out or empty never
\* gets past the checks (so nothing of it is committed and its draft is not
\* deleted), never succeeds, and when no earlier check refuses it, it ends
\* with the validation error that names exactly the missing question ids.
C6_MissingRequiredRefused ==
    [][\A p \in Procs : (Busy(p) /\ LeftOut(req[p].answers) # {}) =>
          /\ pc'[p] \notin PastChecks
          /\ pc'[p] = "done" => result'[p].kind # "ok"
          /\ (pc[p] = "select_existing" /\ pc'[p] # pc[p]
                /\ RowsOf(req[p].telegram_id, req[p].faculty_id) = {}) =>
               /\ pc'[p] = "done"
               /\ result'[p] = [kind |-> "validation_error",
                                missing |-> LeftOut(req[p].answers)]]_vars

C6_Witness ==
    \E p \in Procs : /\ pc[p] = "done"
                     /\ result[p] = [kind |-> "validation_error", missing |-> {"q1"}]
                     /\ questionnaires = << >> /\ approvals = << >> /\ progress = << >>
                     /\ \A a \in Applicants : users[a] = 0
                     /\ \E k \in DOMAIN drafts : drafts[k] # NoDraft

\* C7: every stored questionnaire answers each question with a value of the
\* declared type: a choice answer is one of the options, a number answer is
\* numeric.
Numeric(v) == v \in {"7"}
WellTyped(q, v) ==
    CASE q.type = "choice" -> v \in q.options
      [] q.type = "number" -> Numeric(v)
      [] OTHER -> TRUE
C7_StoredAnswersWellTyped ==
    \A i \in 1..Len(questionnaires) : \A j \in 1..Len(TemplateQuestions) :
        TemplateQuestions[j].id \in DOMAIN questionnaires[i].answers =>
            WellTyped(TemplateQuestions[j], questionnaires[i].answers[TemplateQuestions[j].id])

\* C8 as stated: a submit begun after the applicant's progress is SUBMITTED
\* ends with the already-submitted refusal, whatever the unit's stage is.
C8_AlwaysAlreadySubmitted ==
    [][\A p \in Procs : (sawSubmitted[p] /\ Busy(p) /\ pc'[p] = "done") =>
          result'[p].kind = "already_submitted"]_vars

\* C8 amended: a submit begun after the applicant's progress is SUBMITTED never
\* gets past the checks and ends refused; the refusal is the stage refusal when
\* the unit was read outside (QUESTIONNAIRE, OPEN), the template refusal when
\* the body names another template, and already-submitted otherwise.
C8_Expected(p) ==
    IF ~issuedOpen[p] THEN StageRefusals
    ELSE IF req[p].template_id # req[p].faculty_id THEN {"template_outdated"}
    ELSE {"already_submitted"}
C8_RefusedOnceSubmitted ==
    [][\A p \in Procs : (sawSubmitted[p] /\ Busy(p)) =>
          /\ pc'[p] \notin PastChecks
          /\ pc'[p] = "done" => result'[p].kind \in C8_Expected(p)]_vars

C8_Witness ==
    \E p \in Procs : /\ sawSubmitted[p] /\ pc[p] = "done"
                     /\ result[p].kind = "stage_closed"
                     /\ Len(questionnaires) = 1

\* C9: every time slot holds 0 <= current_participants <= max_participants
\* after any sequence of day creation, lazy slot creation, capacity updates,
\* bookings and cancellations.
C9_CapacityInvariant ==
    \A k \in TimeSlotIds :
        /\ 0 <= time_slots[k].current_participants
        /\ time_slots[k].current_participants <= time_slots[k].max_participants

C9_Witness ==
    \E k \in TimeSlotIds :
        /\ time_slots[k].current_participants = MaxCapacity
        /\ last.op = "update_time_slot" /\ last.kind = "below_occupancy"

\* C10: an update that asks for fewer places than are taken is refused and
\* persists nothing: a time slot keeps its max_participants, an ad-hoc slot
\* keeps every field, also those the same request carried.
Taken(sl) == Cardinality({r \in interviews : r.slot_id = sl /\ r.status = SCHEDULED})
C10_RefusedUpdateKeepsAll ==
    [][/\ (/\ last'.op = "update_time_slot"
           /\ last'.body.max_participants
                 < time_slots[<<last'.day, last'.hour>>].current_participants)
          => (last'.kind = "below_occupancy" /\ UNCHANGED <<time_slots, interviews>>)
       /\ (/\ last'.op = "update_interview_slot"
           /\ last'.body.max_participants # 0
           /\ last'.body.max_participants < Taken(last'.slot))
          => (last'.kind = "below_occupancy"
                /\ UNCHANGED <<interview_slots, interviews>>)]_vars

C10_Witness ==
    /\ last.op = "update_interview_slot" /\ last.kind = "below_occupancy"
    /\ last.body.datetime_start = 2 /\ last.body.location = "B"
    /\ interview_slots[last.slot].datetime_start = 1
    /\ interview_slots[last.slot].location = "A"
    /\ interview_slots[last.slot].max_participants = MaxCapacity
    /\ \E k \in TimeSlotIds : time_slots[k].current_participants > 0

\* C11: on a unit with one place, of two book calls for distinct applicants
\* one gets the SCHEDULED booking and the other is refused as full: a book call
\* that finds the unit full is refused and changes nothing, and after every
\* book call the unit's SCHEDULED bookings number current_participants, which
\* does not exceed max_participants.
ScheduledOn(k) ==
    Cardinality({r \in interviews : r.time_slot_id = k /\ r.status = SCHEDULED})
C11_OneBookingWins ==
    [][last'.op = "book" =>
         /\ \A k \in TimeSlotIds :
              (last'.slot = 0 /\ k = <<last'.day, last'.hour>>) =>
                  /\ (/\ time_slots[k].exists
                      /\ time_slots[k].current_participants >= time_slots[k].max_participants)
                        => (last'.kind = "slot_full"
                              /\ UNCHANGED <<time_slots, interviews>>)
                  /\ ScheduledOn(k)' = time_slots'[k].current_participants
                  /\ time_slots'[k].current_participants <= time_slots'[k].max_participants
         /\ \A sl \in SlotIds :
              sl = last'.slot =>
                  /\ (/\ interview_slots[sl].exists
                      /\ Taken(sl) >= interview_slots[sl].max_participants)
                        => (last'.kind = "slot_full" /\ UNCHANGED interviews)
                  /\ Taken(sl)' <= interview_slots'[sl].max_participants]_vars

C11_Witness ==
    /\ last.op = "book" /\ last.kind = "slot_full" /\ last.slot = 0
    /\ time_slots[<<last.day, last.hour>>].max_participants = 1
    /\ time_slots[<<last.day, last.hour>>].current_participants = 1
    /\ ScheduledOn(<<last.day, last.hour>>) = 1
    /\ \A r \in interviews : r.status = SCHEDULED

\* C12: deleting a capacity unit is refused exactly when a booking that is not
\* cancelled references it; a refused delete leaves the unit as it was, and a
\* unit whose bookings are all cancelled (or that has none) is deleted.
LiveOnDay(d) ==
    \E r \in interviews : r.time_slot_id[1] = d /\ r.status # CANCELLED
C12_DeleteRefusedIffLiveBooking ==
    [][/\ (last'.op = "delete_interview_slot" /\ interview_slots[last'.slot].exists) =>
             IF Taken(last'.slot) > 0
             THEN last'.kind = "has_bookings" /\ UNCHANGED <<interview_slots, interviews>>
             ELSE last'.kind = "ok" /\ ~interview_slots'[last'.slot].exists
       /\ (last'.op = "delete_interview_day" /\ days[last'.day]) =>
             IF LiveOnDay(last'.day)
             THEN last'.kind = "has_bookings" /\ UNCHANGED <<days, time_slots, interviews>>
             ELSE last'.kind = "ok" /\ ~days'[last'.day]]_vars

\* C13: marking and un-marking availability are idempotent: on a unit whose
\* start lies ahead, marking a reviewer who is already marked succeeds and
\* leaves the reviewer's one mark, and un-marking a reviewer who has no mark
\* succeeds and changes nothing.
MarkedTimeSlot(k, r) == time_slots[k].exists /\ time_slot_availability[<<k, r>>]
MarkedSlot(sl, r) == interview_slots[sl].exists /\ slot_availability[<<sl, r>>].exists
C13_AvailabilityIdempotent ==
    [][/\ \A k \in TimeSlotIds, r \in Reviewers :
            (/\ last'.day = k[1] /\ last'.hour = k[2] /\ last'.user = r
             /\ time_slots[k].exists /\ TimeSlotStart(k) > now) =>
                /\ (last'.op = "set_time_slot_availability" /\ MarkedTimeSlot(k, r))
                      => (last'.kind = "ok" /\ MarkedTimeSlot(k, r)')
                /\ (last'.op = "remove_time_slot_availability" /\ ~MarkedTimeSlot(k, r))
                      => (last'.kind = "ok" /\ UNCHANGED availvars)
       /\ \A sl \in SlotIds, r \in Reviewers :
            (/\ last'.slot = sl /\ last'.user = r
             /\ interview_slots[sl].exists /\ interview_slots[sl].datetime_start > now) =>
                /\ (last'.op = "set_availability" /\ MarkedSlot(sl, r))
                      => (last'.kind = "ok" /\ MarkedSlot(sl, r)')
                /\ (last'.op = "remove_availability" /\ ~MarkedSlot(sl, r))
                      => (last'.kind = "ok" /\ UNCHANGED availvars)]_vars

\* C14: a request to set or to remove an availability mark on a unit whose own
\* start has elapsed is refused as past and changes no mark; this includes a
\* time slot earlier on the current day.
AvailabilityOps ==
    {"set_time_slot_availability", "remove_time_slot_availability",
     "set_availability", "remove_availability"}
C14_PastSlotRefused ==
    [][last'.op \in AvailabilityOps =>
         /\ \A k \in TimeSlotIds :
              (/\ last'.slot = 0 /\ last'.day = k[1] /\ last'.hour = k[2]
               /\ time_slots[k].exists /\ TimeSlotStart(k) < now) =>
                  (last'.kind = "past_slot" /\ UNCHANGED availvars)
         /\ \A sl \in SlotIds :
              (/\ last'.slot = sl
               /\ interview_slots[sl].exists /\ interview_slots[sl].datetime_start < now) =>
                  (last'.kind = "past_slot" /\ UNCHANGED availvars)]_vars

\* C15: setting the stage is a flat overwrite: whatever stage and status the
\* unit held, and for every stage and every status named in the request, the
\* unit holds exactly the requested stage and status after the call.
C15_FlatOverwrite ==
    [][stageReq'.seq # stageReq.seq =>
         /\ stageReq'.stage \in StageType /\ stageReq'.status \in StageStatus
         /\ faculty'[stageReq'.faculty].current_stage = stageReq'.stage
         /\ faculty'[stageReq'.faculty].stage_status = stageReq'.status]_vars

C15_Witness ==
    /\ stageReq.faculty \in Faculties
    /\ stageReq.from_stage = INTERVIEW /\ stageReq.from_status = NOT_STARTED
    /\ stageReq.stage = QUESTIONNAIRE /\ stageReq.status = COMPLETED
    /\ faculty[stageReq.faculty].current_stage = QUESTIONNAIRE
    /\ faculty[stageReq.faculty].stage_status = COMPLETED

\* C16: the step that sets the stage to (HOME_VIDEO, OPEN) also sets the unit's
\* video intake flag, the step that sets it to (HOME_VIDEO, CLOSED) also clears
\* the flag, and a step to any other target leaves the flag as it was.
C16_VideoFlagFollowsStage ==
    [][stageReq'.seq # stageReq.seq =>
         LET f == stageReq'.faculty
         IN  /\ faculty'[f].current_stage = stageReq'.stage
             /\ faculty'[f].stage_status = stageReq'.status
             /\ faculty'[f].video_submission_open =
                  IF stageReq'.stage = HOME_VIDEO /\ stageReq'.status = OPEN THEN TRUE
                  ELSE IF stageReq'.stage = HOME_VIDEO /\ stageReq'.status = CLOSED
                       THEN FALSE
                  ELSE faculty[f].video_submission_open]_vars

C16_Witness ==
    /\ stageReq.faculty \in Faculties
    /\ stageReq.stage = HOME_VIDEO /\ stageReq.status = CLOSED
    /\ stageReq.from_open
    /\ ~faculty[stageReq.faculty].video_submission_open
    /\ faculty[stageReq.faculty].current_stage = HOME_VIDEO
    /\ faculty[stageReq.faculty].stage_status = CLOSED

\* C17: a saved draft is returned by get at every moment before the time to
\* live has elapsed since its last save; once it has elapsed, get returns none
\* and the remaining time to live reports the key as absent, exactly as for a
\* key that was never saved.
DraftKeys == Applicants \X Faculties
C17_DraftLivesForTtl ==
    \A k \in DraftKeys :
        /\ saved[k] # NoSave =>
              IF now < saved[k].at + DraftTtl
              THEN /\ get_draft(k[1], k[2]) = saved[k].draft
                   /\ get_draft_ttl(k[1], k[2]) > 0
              ELSE /\ get_draft(k[1], k[2]) = NoDraft
                   /\ get_draft_ttl(k[1], k[2]) = KeyAbsent
        /\ saved[k] = NoSave =>
              /\ get_draft(k[1], k[2]) = NoDraft
              /\ get_draft_ttl(k[1], k[2]) = KeyAbsent

C17_Witness ==
    \E k, j \in DraftKeys :
        /\ saved[k] # NoSave /\ now >= saved[k].at + DraftTtl
        /\ get_draft(k[1], k[2]) = NoDraft
        /\ saved[j] # NoSave /\ now = saved[j].at + DraftTtl - 1
        /\ get_draft(j[1], j[2]) = saved[j].draft

\* C18: a save is a last-write-wins upsert of its key that resets the time to
\* live: right after a save, get returns the template id and answers of that
\* save whatever the key held before, the remaining time to live is the full
\* one, and the drafts and expiries of every other key are as they were.
C18_LastSaveWins ==
    [][\A k \in DraftKeys :
          saved'[k] # saved[k] /\ saved'[k] # NoSave =>
              /\ get_draft(k[1], k[2])' = saved'[k].draft
              /\ get_draft_ttl(k[1], k[2])' = DraftTtl
              /\ \A j \in DraftKeys \ {k} :
                    drafts'[j] = drafts[j] /\ expires'[j] = expires[j]]_vars

C18_Witness ==
    \E k, j \in DraftKeys :
        /\ j # k
        /\ saved[k].seq = 0 /\ saved[k].at > 0
        /\ saved[k].draft.answers = AnsComplete
        /\ get_draft(k[1], k[2]).answers = AnsComplete
        /\ get_draft_ttl(k[1], k[2]) = DraftTtl
        /\ get_draft(j[1], j[2]).answers = AnsNoChoice
        /\ get_draft_ttl(j[1], j[2]) = 1

\* C19: the step that ends a submit with success leaves no draft under the
\* applicant's key for the unit: get returns none and the key is absent, also
\* when a draft had been saved before the submit.
C19_SubmitDiscardsDraft ==
    [][\A p \in Procs, a \in Applicants, f \in Faculties :
          (/\ pc[p] = "delete_draft" /\ pc'[p] = "done"
           /\ req[p].telegram_id = a /\ req[p].faculty_id = f
           /\ result'[p].kind = "ok") =>
              /\ get_draft(a, f)' = NoDraft
              /\ get_draft_ttl(a, f)' = KeyAbsent]_vars

C19_Witness ==
    \E p \in Procs, a \in Applicants, f \in Faculties :
        /\ fresh /\ pc[p] = "done" /\ result[p].kind = "ok"
        /\ Len(questionnaires) > 0
        /\ questionnaires[Len(questionnaires)].user_id = a
        /\ questionnaires[Len(questionnaires)].faculty_id = f
        /\ saved[<<a, f>>] # NoSave
        /\ get_draft(a, f) = NoDraft

\* C20: when the discard of the draft at the end of a submit fails because the
\* draft store is unreachable, the questionnaire, approval and progress rows of
\* that submit stay committed: the failing step changes no row, and the rows
\* of the applicant for the unit are there after it.
C20_RowsSurviveFailedDiscard ==
    [][\A p \in Procs, a \in Applicants, f \in Faculties :
          (/\ pc[p] = "delete_draft" /\ pc'[p] = "done"
           /\ req[p].telegram_id = a /\ req[p].faculty_id = f
           /\ result'[p].kind = "draft_store_error") =>
              /\ UNCHANGED ledger
              /\ RowsOf(a, f)' # {}
              /\ HasApproval(a, f)'
              /\ HasProgress(a, f)']_vars

C20_Witness ==
    \E p \in Procs, a \in Applicants, f \in Faculties :
        /\ pc[p] = "done" /\ result[p].kind = "draft_store_error"
        /\ Len(questionnaires) = 1
        /\ RowsOf(a, f) # {} /\ HasApproval(a, f) /\ HasProgress(a, f)
        /\ saved[<<a, f>>] # NoSave
        /\ get_draft(a, f) = saved[<<a, f>>].draft

\* C21: a failure of the draft discard or of the applicant notification never
\* changes what the caller of submit receives: every request that has
\* committed its rows ends with the success result.
C21_SideEffectsNeverTaint ==
    [][\A p \in Procs :
          (pc[p] = "delete_draft" /\ pc'[p] = "done") => result'[p].kind = "ok"]_vars

\* C24: in every reachable state there is at most one user_progress row for
\* each applicant, unit and stage, also when two submissions of one applicant
\* are served at the same time.
C24_OneProgressRow ==
    \A a \in Applicants, f \in Faculties, stage \in StageType :
        Cardinality(ProgressMatches(progress, a, f, stage)) <= 1

\* =========================================================== home video
\* bot/handlers/video_stage.py: the applicant sends a video to the bot, the
\* head admin opens and closes the intake with /video_toggle.

\* select(UserProgress).where(user_id, stage_type == HOME_VIDEO).first(): the
\* faculty is not part of the filter; row index, 0 = None
FirstVideoProgress(rows, user_id) ==
    LET m == {i \in 1..Len(rows) :
                 rows[i].user_id = user_id /\ rows[i].stage_type = HOME_VIDEO}
    IN  IF m = {} THEN 0 ELSE CHOOSE i \in m : \A j \in m : i <= j

\* what handle_video_submission answers: the checks in the order of the code.
\* With a progress row found, the test of the row reads submission_status,
\* which UserProgress does not have: the handler ends in AttributeError
\* before anything is written.
VideoAnswer(a) ==
    IF users[a] = 0 THEN "not_registered"
    ELSE IF users[a] \notin faculties THEN "faculty_not_found"
    ELSE IF faculty[users[a]].current_stage # HOME_VIDEO THEN "stage_not_active"
    ELSE IF ~faculty[users[a]].video_submission_open THEN "closed_by_admin"
    ELSE IF FirstVideoProgress(progress, a) # 0 THEN "attribute_error"
    ELSE "ok"

\* bot/handlers/video_stage.py handle_video_submission: one session, one commit
handle_video_submission(a) ==
    /\ serial => Quiet
    /\ progress' = IF VideoAnswer(a) = "ok"
                   THEN Append(progress,
                               [user_id |-> a, faculty_id |-> users[a],
                                stage_type |-> HOME_VIDEO, status |-> SUBMITTED,
                                submitted_at |-> now])
                   ELSE progress
    /\ last' = [Answer("handle_video_submission", 0, 0, 0, 0, NoBody, VideoAnswer(a))
                  EXCEPT !.user = a]
    /\ fresh' = FALSE
    /\ UNCHANGED <<faculty, users, questionnaires, approvals, draftvars, procvars,
                   nSubmits, modes, sidevars, now, days, time_slots, interview_slots,
                   interviews, availvars, stageReq, saved>>

\* bot/handlers/video_stage.py cmd_video_toggle: the session that read the
\* faculty row is closed before the flag is flipped, so the commit that
\* follows has nothing to write and the stored row keeps its flag. The answer
\* to administrator r of faculty f reports the flipped value.
cmd_video_toggle(r, f) ==
    /\ serial => Quiet
    /\ last' = [Answer("cmd_video_toggle", 0, 0, 0, 0, NoBody,
                        IF r # HeadAdmin THEN "not_head_admin"
                        ELSE IF f \notin faculties THEN "faculty_not_found"
                        ELSE IF faculty[f].current_stage # HOME_VIDEO
                             THEN "stage_not_active"
                        ELSE IF ~faculty[f].video_submission_open THEN "opened"
                        ELSE "closed")
                  EXCEPT !.user = r]
    /\ fresh' = FALSE
    /\ UNCHANGED <<dbvars, draftvars, procvars, nSubmits, modes, sidevars, now,
                   days, time_slots, interview_slots, interviews, availvars,
                   stageReq, saved>>

\* videos and toggles among stage changes, with the clock running
NextVideo ==
    \/ \E a \in Applicants : handle_video_submission(a)
    \/ \E r \in Reviewers, f \in Faculties : cmd_video_toggle(r, f)
    \/ SetStageAny \/ seed_dev_data \/ Pass

SpecVideo == InitSerial /\ [][NextVideo]_vars

\* the step is a video of applicant a
VideoStep(a) ==
    /\ last' # last
    /\ last'.op = "handle_video_submission" /\ last'.user = a
VideoRefusals == {"not_registered", "faculty_not_found", "stage_not_active",
                  "closed_by_admin", "already_submitted"}

\* C25: a video sent while the unit of the applicant is not in stage
\* HOME_VIDEO or its status is not OPEN is refused and leaves the progress
\* rows as they are, whatever stage changes and toggles came before.
C25_VideoObeysStageGate ==
    [][\A a \in Applicants :
          (/\ VideoStep(a)
           /\ users[a] \in faculties
           /\ \/ faculty[users[a]].current_stage # HOME_VIDEO
              \/ faculty[users[a]].stage_status # OPEN)
          => (last'.kind \in VideoRefusals /\ progress' = progress)]_vars

\* C26: a video that is accepted leaves, in one commit, a home_videos row of
\* the applicant and the unit, a pending approval_queue row of stage
\* HOME_VIDEO and the progress row of stage HOME_VIDEO with status SUBMITTED.
C26_VideoWritesThreeRecords ==
    [][\A a \in Applicants :
          (VideoStep(a) /\ last'.kind = "ok")
          => /\ \E i \in 1..Len(home_videos') :
                   home_videos'[i].user_id = a /\ home_videos'[i].faculty_id = users[a]
             /\ \E i \in 1..Len(approvals') :
                   /\ approvals'[i].user_id = a /\ approvals'[i].faculty_id = users[a]
                   /\ approvals'[i].stage_type = HOME_VIDEO
                   /\ approvals'[i].status = PENDING
             /\ \E i \in 1..Len(progress') :
                   /\ progress'[i].user_id = a /\ progress'[i].faculty_id = users[a]
                   /\ progress'[i].stage_type = HOME_VIDEO
                   /\ progress'[i].status = SUBMITTED]_vars

\* C27: a second video of an applicant whose HOME_VIDEO progress row is
\* SUBMITTED, sent while the intake is open, is answered with the
\* already-submitted refusal and leaves the progress rows, submitted_at
\* included, as they are.
C27_SecondVideoRefused ==
    [][\A a \in Applicants :
          (/\ VideoStep(a)
           /\ users[a] \in faculties
           /\ faculty[users[a]].current_stage = HOME_VIDEO
           /\ faculty[users[a]].video_submission_open
           /\ \E i \in 1..Len(progress) :
                 /\ progress[i].user_id = a /\ progress[i].stage_type = HOME_VIDEO
                 /\ progress[i].status = SUBMITTED)
          => (last'.kind = "already_submitted" /\ progress' = progress)]_vars

\* C28: /video_toggle of the head admin of a unit in stage HOME_VIDEO leaves
\* the stored video_submission_open flag the negation of what it was.
C28_ToggleFlipsStoredFlag ==
    [][\A f \in Faculties :
          (/\ last' # last
           /\ last'.op = "cmd_video_toggle" /\ last'.user = HeadAdmin
           /\ f \in faculties
           /\ faculty[f].current_stage = HOME_VIDEO)
          => faculty'[f].video_submission_open = ~faculty[f].video_submission_open]_vars

\* ===================================================== faculty deletion
\* users.faculty_id of a user whose faculty was deleted: NULL
NullFaculty == -1

\* the rows of a table that do not reference faculty f
NotOf(rows, f) ==
    LET keep(row) == row.faculty_id # f
    IN  SelectSeq(rows, keep)

\* bot/handlers/superadmin.py confirm_delete_faculty: the faculty row, when it
\* is there, is deleted without a look at what references it. The foreign keys
\* of questionnaires, approval_queue, user_progress, home_videos, interviews,
\* interview_slots and interview_days are ON DELETE CASCADE and their rows go
\* with the faculty; the relationship Faculty.users nulls users.faculty_id.
\* The scheduling tables of the model are those of faculty DevFacultyId.
confirm_delete_faculty(super, f) ==
    /\ serial => Quiet
    /\ IF super /\ f \in faculties
       THEN /\ faculties' = faculties \ {f}
            /\ users' = [a \in Applicants |->
                            IF users[a] = f THEN NullFaculty ELSE users[a]]
            /\ questionnaires' = NotOf(questionnaires, f)
            /\ approvals' = NotOf(approvals, f)
            /\ progress' = NotOf(progress, f)
            /\ home_videos' = NotOf(home_videos, f)
            /\ IF f = DevFacultyId
               THEN /\ days' = NoDays
                    /\ time_slots' = [k \in TimeSlotIds |-> NoTimeSlot]
                    /\ interview_slots' = [sl \in SlotIds |-> NoSlot]
                    /\ interviews' = {}
                    /\ slot_availability' = [k \in SlotIds \X Reviewers |-> NoMark]
                    /\ time_slot_availability' =
                          [k \in TimeSlotIds \X Reviewers |-> FALSE]
               ELSE UNCHANGED <<days, time_slots, interview_slots, interviews, availvars>>
       ELSE UNCHANGED <<faculties, ledger, home_videos, days, time_slots,
                        interview_slots, interviews, availvars>>
    /\ last' = Answer("confirm_delete_faculty", 0, 0, 0, 0, NoBody,
                      IF super THEN "deleted" ELSE "no_access")
    /\ fresh' = FALSE
    /\ UNCHANGED <<faculty, draftvars, procvars, nSubmits, modes, notified, shadow, now,
                   stageReq, saved>>

\* requests to a faculty are followed while the faculty is there
NextUnit ==
    \/ faculties = Faculties /\ Submit
    \/ faculties = Faculties /\ SetStage
    \/ faculties = Faculties /\ seed_dev_data
    \/ \E super \in BOOLEAN, f \in Faculties : confirm_delete_faculty(super, f)

SpecUnit == InitSerial /\ [][NextUnit]_vars

\* a submission or a booking references faculty f
Referenced(f) ==
    \/ \E i \in 1..Len(questionnaires) : questionnaires[i].faculty_id = f
    \/ \E i \in 1..Len(progress) : progress[i].faculty_id = f
    \/ (f = DevFacultyId /\ interviews # {})

\* C23: a faculty that a Questionnaire, UserProgress or Interview row
\* references is not deleted: no step removes it or any of those rows.
C23_ReferencedUnitStays ==
    [][\A f \in Faculties :
          (f \in faculties /\ Referenced(f))
          => /\ f \in faculties'
             /\ Len(questionnaires') >= Len(questionnaires)
             /\ Len(progress') >= Len(progress)
             /\ (interviews # {} => interviews' # {})]_vars

\* ================================================================ reads
\* GET /questionnaire/{faculty_id} and GET /questionnaire/{faculty_id}/status

\* a status endpoint that does not look at the progress row
StatusCanSubmitStageOnly(a, f) ==
    faculty[f].current_stage = QUESTIONNAIRE /\ faculty[f].stage_status = OPEN

\* get_questionnaire_form: can_submit of the response; already_submitted is
\* the presence of a questionnaires row of the user and the faculty
FormCanSubmit(a, f) ==
    IF faculty[f].current_stage = HOME_VIDEO THEN FALSE
    ELSE /\ faculty[f].current_stage = QUESTIONNAIRE
         /\ faculty[f].stage_status = OPEN
         /\ ~ExistingQuestionnaire(questionnaires, a, f)

\* get_questionnaire_status: user_status is the status of the first
\* questionnaire progress row, "not_started" without one
StatusCanSubmit(a, f) ==
    LET i == FirstProgress(progress, a, f, QUESTIONNAIRE)
        user_status == IF i = 0 THEN NOT_STARTED ELSE progress[i].status
    IN  /\ faculty[f].current_stage = QUESTIONNAIRE
        /\ faculty[f].stage_status = OPEN
        /\ user_status \notin {SUBMITTED, APPROVED}

\* the checks of submit_questionnaire that do not depend on the body: the two
\* stage checks and the select of an existing questionnaire
SubmitGatePasses(a, f) ==
    /\ StageCheck(faculty[f].current_stage, faculty[f].stage_status) = "pass"
    /\ ~ExistingQuestionnaire(questionnaires, a, f)

\* a read: get_or_create_user flushes the row of a new telegram id, the
\* response is built and the session of get_db closes without commit
ReadAnswer(op, a, f, can_submit) ==
    /\ serial => Quiet
    /\ users[a] = 0 => ~UserInsertPending(0, a)
    /\ users' = Rollback(users, get_or_create_user(users, a, f))
    /\ last' = [Answer(op, 0, 0, 0, 0, NoBody,
                        IF can_submit THEN "can_submit" ELSE "no_submit")
                  EXCEPT !.user = a]
    /\ fresh' = FALSE
    /\ UNCHANGED <<faculty, questionnaires, approvals, progress, draftvars, procvars,
                   nSubmits, modes, sidevars, now, days, time_slots, interview_slots,
                   interviews, availvars, stageReq, saved>>

get_questionnaire_form(a, f) ==
    ReadAnswer("get_questionnaire_form", a, f, FormCanSubmit(a, f))

get_questionnaire_status(a, f) ==
    ReadAnswer("get_questionnaire_status", a, f, StatusCanSubmit(a, f))

\* reads among submits, stage changes and draft saves, one request at a time
NextReads ==
    \/ Submit \/ SetStage \/ seed_dev_data \/ SaveDraft \/ DeleteDraft
    \/ \E a \in Applicants, f \in Faculties : get_questionnaire_form(a, f)
    \/ \E a \in Applicants, f \in Faculties : get_questionnaire_status(a, f)

SpecReads == InitSerial /\ [][NextReads]_vars

ReadStep ==
    /\ last' # last
    /\ last'.op \in {"get_questionnaire_form", "get_questionnaire_status"}
\* the step saves or discards a draft
DraftStep == <<drafts, expires>>' # <<drafts, expires>>
\* the step belongs to a submit and is not its commit
SubmitStepBesideCommit ==
    \E p \in Procs : pc'[p] # pc[p] /\ ~(pc[p] = "commit" /\ pc'[p] = "delete_draft")

\* C30: a form read, a status read, a save or a discard of a draft and every
\* step of a submit other than its commit leave the faculty, users,
\* questionnaires, approval_queue and user_progress rows as they are, also
\* for a telegram id without a users row.
C30_ReadsWriteNothing ==
    [][(ReadStep \/ DraftStep \/ SubmitStepBesideCommit) => UNCHANGED dbvars]_vars

\* an applicant without a users row has saved a draft and read the form, a
\* submit of that applicant was refused, and the row is still absent
C30_Witness ==
    \E a \in Applicants, f \in Faculties, p \in Procs :
        /\ users[a] = 0
        /\ get_or_create_user(users, a, f) # users
        /\ drafts[<<a, f>>] # NoDraft
        /\ last.op = "get_questionnaire_form" /\ last.user = a
        /\ pc[p] = "done" /\ result[p].kind \notin {"ok", "none"}
        /\ \E b \in Applicants : users[b] # 0 /\ RowsOf(b, f) # {}

\* =========================================================== twin runs
\* The requests of a run are served a second time on rows of their own
\* (shadow), by the handlers read as functions of the rows and the request:
\* the second run has no draft store.

\* submit_questionnaire from its first check to its response, on rows db
SubmitKind(db, a, f, t, ans) ==
    IF StageCheck(db.faculty[f].current_stage, db.faculty[f].stage_status) # "pass"
    THEN StageCheck(db.faculty[f].current_stage, db.faculty[f].stage_status)
    ELSE IF ~TemplateCheck(t, ActiveTemplate(f)) THEN "template_outdated"
    ELSE IF ExistingQuestionnaire(db.questionnaires, a, f) THEN "already_submitted"
    ELSE IF MissingAnswers(ActiveTemplate(f).questions, ans) # {} THEN "validation_error"
    ELSE "ok"

SubmitOutcome(db, a, f, t, ans, at) ==
    IF SubmitKind(db, a, f, t, ans) # "ok"
    THEN [db EXCEPT !.kind = SubmitKind(db, a, f, t, ans),
                    !.missing = IF SubmitKind(db, a, f, t, ans) = "validation_error"
                                THEN MissingAnswers(ActiveTemplate(f).questions, ans)
                                ELSE {}]
    ELSE [db EXCEPT
            !.users = get_or_create_user(@, a, f),
            !.questionnaires = Append(@, NewQuestionnaire(a, f, t, ans)),
            !.approvals = @ \o NewApprovalRows(a, f, ans),
            !.progress =
                IF FirstProgress(@, a, f, QUESTIONNAIRE) # 0
                THEN [@ EXCEPT ![FirstProgress(db.progress, a, f, QUESTIONNAIRE)] =
                         [@ EXCEPT !.status = SUBMITTED, !.submitted_at = at]]
                ELSE Append(@, NewProgress(a, f, at)),
            !.kind = "ok", !.missing = {}]

\* the second run has served every request the first has begun
Synced == shadow.n = nSubmits /\ shadow.stageSeq = stageReq.seq

\* the second run serves the submit the first has just begun
TwinSubmit ==
    \E p \in Procs :
        /\ pc[p] = "select_user" /\ shadow.n # nSubmits
        /\ shadow' = [SubmitOutcome(shadow, req[p].telegram_id, req[p].faculty_id,
                                    req[p].template_id, req[p].answers, now)
                        EXCEPT !.n = nSubmits]
        /\ UNCHANGED <<dbvars, draftvars, procvars, fresh, nSubmits, modes, faculties,
                       home_videos, notified, now, capvars>>

\* the second run serves the stage switch the first has just served:
\* callback_set_stage on its own faculty rows
TwinSetStage ==
    /\ shadow.stageSeq # stageReq.seq
    /\ shadow' = [shadow EXCEPT
          !.faculty[stageReq.faculty] =
              [current_stage |-> stageReq.stage,
               stage_status |-> stageReq.status,
               video_submission_open |->
                  IF stageReq.stage = HOME_VIDEO /\ stageReq.status = OPEN THEN TRUE
                  ELSE IF stageReq.stage = HOME_VIDEO /\ stageReq.status = CLOSED
                       THEN FALSE
                  ELSE @.video_submission_open],
          !.stageSeq = stageReq.seq]
    /\ UNCHANGED <<dbvars, draftvars, procvars, fresh, nSubmits, modes, faculties,
                   home_videos, notified, now, capvars>>

\* draft keys are lost at any moment: expiry, eviction, a restart of Redis,
\* /cleanup_redis
LoseDrafts ==
    \E K \in SUBSET DraftKeys :
        /\ \E k \in K : drafts[k] # NoDraft
        /\ drafts' = [k \in DOMAIN drafts |-> IF k \in K THEN NoDraft ELSE drafts[k]]
        /\ expires' = [k \in DOMAIN expires |-> IF k \in K THEN 0 ELSE expires[k]]
        /\ UNCHANGED <<dbvars, procvars, fresh, nSubmits, modes, sidevars, now, capvars>>

\* a button of the stage keyboard is pressed; the request is kept for the
\* second run
SetStageNoted ==
    \E f \in Faculties, b \in StageButtons :
        /\ callback_set_stage(f, b[1], b[2])
        /\ stageReq' = [NoStageReq EXCEPT !.faculty = f, !.stage = b[1], !.status = b[2],
                                          !.seq = 1 - stageReq.seq]

\* the first run goes on when the second has caught up
NextTwin ==
    \/ Synced /\ Submit
    \/ Synced /\ SetStageNoted
    \/ Synced /\ SaveDraft
    \/ Synced /\ DeleteDraft
    \/ LoseDrafts \/ TwinSubmit \/ TwinSetStage

SpecTwin == InitSerial /\ [][NextTwin]_vars

\* C22: whatever the draft store held and lost along the way, once the
\* requests begun are served the faculty, users, questionnaires,
\* approval_queue and user_progress rows and the response of the last submit
\* are those of the run without a draft store.
C22_DraftsNeverDecide ==
    (Quiet /\ Synced) =>
        /\ shadow.faculty = faculty
        /\ shadow.users = users
        /\ shadow.questionnaires = questionnaires
        /\ shadow.approvals = approvals
        /\ shadow.progress = progress
        /\ \A p \in Procs : pc[p] = "done" =>
              (result[p].kind = shadow.kind /\ result[p].missing = shadow.missing)

\* two submits are served, one accepted and one refused, the stage was
\* switched, and the draft store still holds a draft the second run never had
C22_Witness ==
    \E a, b \in Applicants, f \in Faculties :
        /\ Quiet /\ Synced /\ shadow.n = 2 /\ shadow.stageSeq = 1
        /\ RowsOf(a, f) # {} /\ get_draft(a, f) = NoDraft
        /\ RowsOf(b, f) = {} /\ get_draft(b, f) # NoDraft
        /\ pc[1] = "done" /\ result[1].kind \notin {"ok", "none"}
        /\ shadow.kind = result[1].kind

====
